---- MODULE Spec2Model ----
(***************************************************************************)
(* pyca: the robot/human terminal UI loop (pyca/robo_ui.py) driving a      *)
(* pycolab Game, and the chain-walk environment                            *)
(* (pyca/environments/simple.py).                                          *)
(*                                                                         *)
(* CursesUi._init_curses_and_play is modelled statement group by statement *)
(* group; pc is the position of the single thread of control:              *)
(*   "check"   reserved-key check                 (robo_ui.py 106-112)     *)
(*   "kickoff" its_showtime and first display     (robo_ui.py 147-151)     *)
(*   "while"   loop test                          (robo_ui.py 154)         *)
(*   "getch"   input read and key dispatch        (robo_ui.py 161-185)     *)
(*   "play"    Game.play and return accumulation  (robo_ui.py 172-177,     *)
(*                                                 186-191)                *)
(*   "display" redraw                             (robo_ui.py 195-196)     *)
(*   "console" log drain and doupdate             (robo_ui.py 199-203)     *)
(*   "exit"    loop left because game_over                                 *)
(*   "raised"  ValueError of the reserved-key check                        *)
(*   "crashed" AttributeError of None.decide()                             *)
(* Python's None is the empty sequence and a number x is <<x>>, for the    *)
(* reward, the total return and the delay.                                 *)
(***************************************************************************)
EXTENDS Integers, Sequences, FiniteSets, TLC

\* ------------------------------------------------------------------ bounds
\* The generic Game ends its episode at the latest on this frame.
MaxFrames == 3
\* Largest single reward the generic Game hands out.
MaxReward == 2
\* Largest number of croppers a UI is configured with.
MaxCroppers == 2

\* ------------------------------------------------------- program constants
KEY_PPAGE == 339
KEY_NPAGE == 338
KEY_LEFT == 260
KEY_RIGHT == 261
KEY_BACKSPACE == 127
\* the timeout "keycode" of screen.getch()
NO_INPUT == -1
\* a key that no table of the model binds
KEY_OTHER == 120
\* the actions argument of the update its_showtime() triggers (Python None:
\* equal to neither 0 nor 1)
NONE_ACTION == -1

None == << >>
Some(x) == << x >>

Autonomous == "Autonomous"
Demonstration == "Demonstration"
Participation == "Participation"
Mode == {Autonomous, Demonstration, Participation}

\* ------------------------------------------------------------- chain walk
GAME_ART ==
  << << ".", ".", "P", ".", ".", ".", ".", ".", ".", ".", ".",
        ".", ".", ".", ".", ".", ".", ".", ".", ".", ".", "." >> >>

\* (rows, cols) of the board: the corner pycolab hands to every sprite.
corner == << Len(GAME_ART), Len(GAME_ART[1]) >>

\* the start column taken 1-based
StartColumn_OneBased == CHOOSE i \in 1..Len(GAME_ART[1]) : GAME_ART[1][i] = "P"

\* column (0-based) of the 'P' of the art
StartColumn == (CHOOSE i \in 1..Len(GAME_ART[1]) : GAME_ART[1][i] = "P") - 1

\* MazeWalker._west/_east with impassable='' (confined to the board)
West(col) == IF col - 1 >= 0 THEN col - 1 ELSE col
East(col) == IF col + 1 <= corner[2] - 1 THEN col + 1 ELSE col

\* motion commands with left and right swapped
Move_Swapped(actions, col) ==
  IF actions = 0 THEN East(col)
  ELSE IF actions = 1 THEN West(col)
  ELSE col

\* PlayerSprite.update, "Apply motion commands"
Move(actions, col) ==
  IF actions = 0 THEN West(col)
  ELSE IF actions = 1 THEN East(col)
  ELSE col

\* an update that takes corner[1] itself for the rightmost column
update_OffByOne(actions, col) ==
  LET c == Move(actions, col) IN
  IF c = 0
    THEN [position |-> c, reward |-> Some(1), game_over |-> TRUE]
    ELSE IF c = corner[2]
      THEN [position |-> c, reward |-> Some(100), game_over |-> TRUE]
      ELSE [position |-> c, reward |-> None, game_over |-> FALSE]

\* PlayerSprite.update: the new column, the reward added to the plot and
\* whether the episode was terminated
update(actions, col) ==
  LET c == Move(actions, col) IN
  IF c = 0
    THEN [position |-> c, reward |-> Some(1), game_over |-> TRUE]
    ELSE IF c = corner[2] - 1
      THEN [position |-> c, reward |-> Some(100), game_over |-> TRUE]
      ELSE [position |-> c, reward |-> None, game_over |-> FALSE]

\* ---------------------------------------------------------- configuration
Actions == {0, 1, 2}

\* keys_to_actions of SimpleEnvironment.play_as_robot
RoboKeys == (KEY_LEFT :> 0) @@ (KEY_RIGHT :> 1)

\* the tables the model is run with: the shipped one, and the shipped one
\* with one more key bound to action 2 (-1 as in SimpleEnvironment.play)
ExtraKeys == {NO_INPUT, KEY_BACKSPACE, KEY_PPAGE, KEY_NPAGE}
KeyTables == {RoboKeys} \cup { (k :> 2) @@ RoboKeys : k \in ExtraKeys }

\* agent: absent, RandomAgent of simple.py, or an agent that may return any
\* action
Agents == {"None", "RandomAgent", "AnyAgent"}

\* an agent that always decides action 0
decide_Left(agent) == {0}

\* RandomAgent.decide / an arbitrary Decision Source
decide(agent) == IF agent = "RandomAgent" THEN {1} ELSE Actions

Delays == {None, Some(200)}

\* what screen.getch() can return: -1 only when a timeout was set
Readable(d) ==
  {KEY_PPAGE, KEY_NPAGE, KEY_BACKSPACE, KEY_LEFT, KEY_RIGHT, KEY_OTHER}
    \cup (IF d = None THEN {} ELSE {NO_INPUT})

\* what the generic Game may return as a reward: None, or a number
Rewards == {None} \cup { Some(r) : r \in 0..MaxReward }

\* what screen.getch() returns for a user at the keyboard ("present") and
\* for one who presses no key any more ("gone"): then only timeouts
KeysOf(d, u) == IF u = "gone" THEN Readable(d) \cap {NO_INPUT} ELSE Readable(d)

\* ------------------------------------------- croppers and the repainter
\* self._repainter: absent, a repainter that returns a new buffer on every
\* call, or one that owns a single buffer and overwrites it on every call
Repainters == {"None", "fresh", "reuse"}

\* A view is a buffer (its identity) and the board it holds.  cropper i
\* cuts its own window out of the observation.
Crop(i, obs) ==
  [buf |-> [kind |-> "crop", slot |-> i], board |-> << i, obs >>]

\* self._repainter(view) for the i-th view
Repaint(rp, i, v) ==
  [buf |-> [kind |-> "paint", slot |-> IF rp = "reuse" THEN 0 ELSE i],
   board |-> v.board]

\* copy.deepcopy(view) for the i-th view: a buffer of its own
DeepCopy(i, v) == [buf |-> [kind |-> "copy", slot |-> i], board |-> v.board]

\* what the views of a list show once the whole list is built: a buffer
\* holds the board written to it last
Settle(views) ==
  [ i \in 1..Len(views) |->
      LET last == CHOOSE j \in 1..Len(views) :
                    /\ views[j].buf = views[i].buf
                    /\ \A k \in 1..Len(views) :
                         views[k].buf = views[i].buf => k <= j
      IN [buf |-> views[i].buf, board |-> views[last].board] ]

\* a crop_and_repaint that never copies
crop_and_repaint_NoCopy(n, rp, obs) ==
  LET cropped == [ i \in 1..n |-> Crop(i, obs) ] IN
  IF rp # "None"
    THEN Settle([ i \in 1..n |-> Repaint(rp, i, cropped[i]) ])
    ELSE cropped

\* crop_and_repaint of _init_curses_and_play, for n croppers
crop_and_repaint(n, rp, obs) ==
  LET cropped == [ i \in 1..n |-> Crop(i, obs) ] IN
  IF rp # "None"
    THEN IF Len(cropped) = 1
      THEN Settle(<< Repaint(rp, 1, cropped[1]) >>)
      ELSE Settle([ i \in 1..n |-> DeepCopy(i, Repaint(rp, i, cropped[i])) ])
    ELSE cropped

VARIABLES
  keys_to_actions,  \* self._keycodes_to_actions
  robo,             \* self.robo
  delay,            \* self._delay
  game_kind,        \* self._game: "chain" (make_game) or "generic"
  mode,             \* self.mode
  total_return,     \* self._total_return
  paint_console,    \* local paint_console
  keycode,          \* local keycode (0 before the first read)
  action,           \* local action
  reward,           \* local reward
  position,         \* chain walk: column of the player sprite
  frame,            \* generic Game: frames played so far
  game_over,        \* self._game.game_over
  screen,           \* what the last _display call drew
  pc,
  \* history
  events,           \* calls made since the last input read (or since start)
  mode_before,      \* mode when the key of this tick was read
  reward_sum,       \* sum of the non-null rewards returned so far
  reward_seen,      \* whether a non-null reward was returned so far
  prev_position,    \* column before the last update
  right_run,        \* number of plays so far if all were action 1, else -1
  left_run,         \* number of plays so far if all were action 0, else -1
  showtime_calls,   \* number of its_showtime() calls so far
  \* added state
  n_croppers,       \* len(self._croppers)
  repainter,        \* self._repainter
  observations,     \* local observations (the Observation Set)
  user              \* whoever sits at the keyboard: "present" or "gone"

config == << keys_to_actions, robo, delay, game_kind, n_croppers, repainter,
            user >>
game == << position, frame, game_over >>
hist == << events, mode_before, reward_sum, reward_seen, prev_position,
           right_run, left_run, showtime_calls >>
vars == << keys_to_actions, robo, delay, game_kind, mode, total_return,
           paint_console, keycode, action, reward, position, frame,
           game_over, screen, pc, events, mode_before, reward_sum,
           reward_seen, prev_position, right_run, left_run, showtime_calls,
           n_croppers, repainter, observations, user >>

\* ----------------------------------------------------------------- the UI
\* switch_mode that only swaps Autonomous and Demonstration
switch_mode_SwapOnly(m) ==
  IF m = Autonomous THEN Demonstration
  ELSE IF m = Demonstration THEN Autonomous
  ELSE m

\* CursesUi.switch_mode
switch_mode(m) == IF m = Autonomous THEN Demonstration ELSE Autonomous

\* a reserved-key check that forgets Page Down
HasReservedKey_PageUpOnly(k2a) ==
  \E key \in DOMAIN k2a : key \in {KEY_PPAGE}

\* a reserved-key check that also rejects the toggle key
HasReservedKey_WithBackspace(k2a) ==
  \E key \in DOMAIN k2a : key \in {KEY_PPAGE, KEY_NPAGE, KEY_BACKSPACE}

\* the reserved-key check at the head of _init_curses_and_play
HasReservedKey(k2a) ==
  \E key \in DOMAIN k2a : key \in {KEY_PPAGE, KEY_NPAGE}

\* console keys that flip the flag instead of setting it
ConsoleFlag_Flip(k, shown) ==
  IF k \in {KEY_PPAGE, KEY_NPAGE} THEN ~shown ELSE shown

\* paint_console after a read of k: Page Up shows the console, Page Down
\* hides it
ConsoleFlag(k, shown) ==
  IF k = KEY_PPAGE THEN TRUE
  ELSE IF k = KEY_NPAGE THEN FALSE
  ELSE shown

\* a robot branch that forgets the mode test
RoboMoves_AnyMode(k, m) == k = NO_INPUT

\* "elif keycode == -1 and self.mode in (Mode.Autonomous,)"
RoboMoves(k, m) == k = NO_INPUT /\ m \in {Autonomous}

\* a bound key that never leaves Autonomous
HumanTakesOver_Never(m) == m

\* a bound key that always forces Participation
HumanTakesOver_Always(m) == Participation

\* "if self.mode == Mode.Autonomous: self.mode = Mode.Participation"
HumanTakesOver(m) == IF m = Autonomous THEN Participation ELSE m

\* an accumulation that lets a null reward clobber the total
Accumulate_Clobber(total, r) ==
  IF total = None THEN r
  ELSE IF r # None THEN Some(total[1] + r[1])
  ELSE r

\* the update of self._total_return after play()
Accumulate(total, r) ==
  IF total = None THEN r
  ELSE IF r # None THEN Some(total[1] + r[1])
  ELSE total

\* ---------------------------------------------------------------- the Game
\* its_showtime() and play(): the chain walk runs PlayerSprite.update; the
\* generic Game returns any reward and may end the episode on any frame.
GameStep(actions) ==
  IF game_kind = "chain"
    THEN LET u == update(actions, position) IN
         /\ position' = u.position
         /\ reward' = u.reward
         /\ game_over' = u.game_over
         /\ frame' = frame
    ELSE /\ \E r \in Rewards : reward' = r
         /\ \E g \in BOOLEAN :
              game_over' = (g \/ frame + 1 >= MaxFrames)
         /\ frame' = frame + 1
         /\ position' = position

\* bookkeeping of the rewards returned by the Game
Observe ==
  /\ reward_sum' = IF reward' = None THEN reward_sum
                   ELSE reward_sum + reward'[1]
  /\ reward_seen' = (reward_seen \/ reward' # None)
  /\ prev_position' = position

\* the observation the Game returns: the board after the step just made
Observation == << position', frame' >>

\* the state after construction, whatever the configuration
Constructed ==
  /\ mode = Autonomous
  /\ total_return = None
  /\ paint_console = FALSE
  /\ keycode = 0
  /\ action = NONE_ACTION
  /\ reward = None
  /\ position = StartColumn
  /\ frame = 0
  /\ game_over = FALSE
  /\ screen = [score |-> None, mode |-> Autonomous, elapsed |-> "none",
               drawn |-> FALSE]
  /\ pc = "check"
  /\ events = << >>
  /\ mode_before = Autonomous
  /\ reward_sum = 0
  /\ reward_seen = FALSE
  /\ prev_position = StartColumn
  /\ right_run = 0
  /\ left_run = 0
  /\ showtime_calls = 0
  /\ observations = << >>

\* any key table, agent, delay and Game, with the default single cropper and
\* no repainter (as simple.py constructs the UI), the user at the keyboard
Init ==
  /\ keys_to_actions \in KeyTables
  /\ robo \in Agents
  /\ delay \in Delays
  /\ game_kind \in {"chain", "generic"}
  /\ n_croppers = 1
  /\ repainter = "None"
  /\ user = "present"
  /\ Constructed

\* robo_ui.py 106-112
CheckReservedKeys ==
  /\ pc = "check"
  /\ pc' = IF HasReservedKey(keys_to_actions) THEN "raised" ELSE "kickoff"
  /\ UNCHANGED << config, mode, total_return, paint_console, keycode, action,
                  reward, game, screen, hist, observations >>

\* a kickoff that starts the score at 0 when its_showtime returns no reward
Kickoff_ZeroScore ==
  /\ pc = "kickoff"
  /\ GameStep(NONE_ACTION)
  /\ Observe
  /\ observations' = crop_and_repaint(n_croppers, repainter, Observation)
  /\ total_return' = IF reward' = None THEN Some(0) ELSE reward'
  /\ screen' = [score |-> total_return', mode |-> mode, elapsed |-> "zero",
                drawn |-> TRUE]
  /\ events' = << <<"its_showtime", NONE_ACTION>>, <<"display", 0>> >>
  /\ showtime_calls' = showtime_calls + 1
  /\ pc' = "while"
  /\ UNCHANGED << config, mode, paint_console, keycode, action, mode_before,
                  right_run, left_run >>

\* robo_ui.py 147-151
Kickoff ==
  /\ pc = "kickoff"
  /\ GameStep(NONE_ACTION)
  /\ Observe
  /\ observations' = crop_and_repaint(n_croppers, repainter, Observation)
  /\ total_return' = reward'
  /\ screen' = [score |-> total_return', mode |-> mode, elapsed |-> "zero",
                drawn |-> TRUE]
  /\ events' = << <<"its_showtime", NONE_ACTION>>, <<"display", 0>> >>
  /\ showtime_calls' = showtime_calls + 1
  /\ pc' = "while"
  /\ UNCHANGED << config, mode, paint_console, keycode, action, mode_before,
                  right_run, left_run >>

\* robo_ui.py 154
WhileTest ==
  /\ pc = "while"
  /\ pc' = IF game_over THEN "exit" ELSE "getch"
  /\ UNCHANGED << config, mode, total_return, paint_console, keycode, action,
                  reward, game, screen, hist, observations >>

\* robo_ui.py 161-171 and 178-185: read one key and dispatch on it
Dispatch(k) ==
  IF k = KEY_PPAGE
    THEN /\ paint_console' = ConsoleFlag(k, paint_console)
         /\ events' = << <<"getch", k>> >>
         /\ pc' = "display"
         /\ UNCHANGED << mode, action >>
  ELSE IF k = KEY_NPAGE
    THEN /\ paint_console' = ConsoleFlag(k, paint_console)
         /\ events' = << <<"getch", k>> >>
         /\ pc' = "display"
         /\ UNCHANGED << mode, action >>
  ELSE IF k = KEY_BACKSPACE
    THEN /\ mode' = switch_mode(mode)
         /\ events' = << <<"getch", k>> >>
         /\ pc' = "display"
         /\ UNCHANGED << paint_console, action >>
  ELSE IF RoboMoves(k, mode)
    THEN IF robo = "None"
      THEN /\ pc' = "crashed"
           /\ events' = << <<"getch", k>> >>
           /\ UNCHANGED << mode, paint_console, action >>
      ELSE /\ \E a \in decide(robo) :
                /\ action' = a
                /\ events' = << <<"getch", k>>, <<"decide", a>> >>
           /\ pc' = "play"
           /\ UNCHANGED << mode, paint_console >>
  ELSE IF k \in DOMAIN keys_to_actions
    THEN /\ mode' = HumanTakesOver(mode)
         /\ action' = keys_to_actions[k]
         /\ events' = << <<"getch", k>> >>
         /\ pc' = "play"
         /\ UNCHANGED paint_console
  ELSE /\ events' = << <<"getch", k>> >>
       /\ pc' = "display"
       /\ UNCHANGED << mode, paint_console, action >>

Getch ==
  /\ pc = "getch"
  /\ \E k \in KeysOf(delay, user) :
       /\ keycode' = k
       /\ Dispatch(k)
  /\ mode_before' = mode
  /\ UNCHANGED << config, total_return, reward, game, screen, reward_sum,
                  reward_seen, prev_position, right_run, left_run,
                  showtime_calls, observations >>

\* robo_ui.py 172-177 and 186-191
Play ==
  /\ pc = "play"
  /\ GameStep(action)
  /\ Observe
  /\ total_return' = Accumulate(total_return, reward')
  /\ events' = Append(events, <<"play", action>>)
  /\ observations' = crop_and_repaint(n_croppers, repainter, Observation)
  /\ right_run' = IF action = 1 /\ right_run >= 0 THEN right_run + 1 ELSE -1
  /\ left_run' = IF action = 0 /\ left_run >= 0 THEN left_run + 1 ELSE -1
  /\ pc' = "display"
  /\ UNCHANGED << config, mode, paint_console, keycode, action, screen,
                  mode_before, showtime_calls >>

\* robo_ui.py 195-196
Display ==
  /\ pc = "display"
  /\ screen' = [score |-> total_return, mode |-> mode, elapsed |-> "clock",
                drawn |-> TRUE]
  /\ events' = Append(events, <<"display", 0>>)
  /\ pc' = "console"
  /\ UNCHANGED << config, mode, total_return, paint_console, keycode, action,
                  reward, game, mode_before, reward_sum, reward_seen,
                  prev_position, right_run, left_run, showtime_calls,
                  observations >>

\* robo_ui.py 199-203
UpdateConsole ==
  /\ pc = "console"
  /\ events' = Append(events, <<"drain", 0>>)
  /\ pc' = "while"
  /\ UNCHANGED << config, mode, total_return, paint_console, keycode, action,
                  reward, game, screen, mode_before, reward_sum, reward_seen,
                  prev_position, right_run, left_run, showtime_calls,
                  observations >>

Next ==
  \/ CheckReservedKeys
  \/ Kickoff
  \/ WhileTest
  \/ Getch
  \/ Play
  \/ Display
  \/ UpdateConsole

Spec == Init /\ [][Next]_vars

\* The UI with any number of croppers and any repainter, otherwise as
\* play_as_robot configures it (with or without a delay), on either Game.
InitViews ==
  /\ keys_to_actions = RoboKeys
  /\ robo = "RandomAgent"
  /\ delay \in Delays
  /\ game_kind \in {"chain", "generic"}
  /\ n_croppers \in 1..MaxCroppers
  /\ repainter \in Repainters
  /\ user = "present"
  /\ Constructed

SpecViews == InitViews /\ [][Next]_vars

\* SimpleEnvironment.play_as_robot: the chain walk, RandomAgent, delay 200,
\* with a user who may press keys for a while and then presses none any
\* more (or never presses one).
InitRobot ==
  /\ keys_to_actions = RoboKeys
  /\ robo = "RandomAgent"
  /\ delay = Some(200)
  /\ game_kind = "chain"
  /\ n_croppers = 1
  /\ repainter = "None"
  /\ user \in {"present", "gone"}
  /\ Constructed

\* the user stops pressing keys
UserLeaves ==
  /\ user = "present"
  /\ user' = "gone"
  /\ UNCHANGED << keys_to_actions, robo, delay, game_kind, n_croppers,
                  repainter, mode, total_return, paint_console, keycode,
                  action, reward, game, screen, pc, hist, observations >>

NextRobot == Next \/ UserLeaves

\* The loop is a running program: whatever step it is at is taken (with a
\* delay set, getch() returns after at most the delay).
SpecRobot == InitRobot /\ [][NextRobot]_vars /\ WF_vars(Next)

TypeOK ==
  /\ mode \in Mode
  /\ pc \in {"check", "kickoff", "while", "getch", "play", "display",
             "console", "exit", "raised", "crashed"}
  /\ total_return = None \/ Len(total_return) = 1
  /\ position \in 0..(corner[2] - 1)
  /\ frame \in 0..MaxFrames
  /\ Len(observations) \in {0, n_croppers}
  /\ user \in {"present", "gone"}

\* ------------------------------------------------------------ properties
\* the tick whose key is keycode is under way: the key was read and
\* dispatched, and the loop test has not been reached again
InTick == pc \in {"play", "display", "console"}

\* a Game.play call is among the calls of this tick
Played == \E i \in 1..Len(events) : events[i][1] = "play"

\* the decide() calls of this tick
Decides == { i \in 1..Len(events) : events[i][1] = "decide" }

\* C1, as stated: for every key of the KeyBinding Table, reading it while
\* Mode is Autonomous makes Mode Participation on that tick, already when
\* the key's action is about to be passed to Game.play.
C1_AnyBoundKeyYieldsParticipation ==
  (InTick /\ keycode \in DOMAIN keys_to_actions /\ mode_before = Autonomous)
    => (mode = Participation /\ action = keys_to_actions[keycode])

\* C1, amended: for every key of the KeyBinding Table other than the toggle
\* key 127 and the no-input sentinel -1, reading it while Mode is Autonomous
\* makes Mode Participation on that tick; Mode is Participation when the
\* key's bound action is about to be passed to Game.play (pc = "play", no
\* play call made yet) and stays so to the end of the tick, and the action
\* played is the bound one.
C1_BoundKeyYieldsParticipation ==
  (InTick
     /\ keycode \in DOMAIN keys_to_actions \ {KEY_BACKSPACE, NO_INPUT}
     /\ mode_before = Autonomous)
    => /\ mode = Participation
       /\ action = keys_to_actions[keycode]
       /\ pc = "play" => ~Played
       /\ pc # "play" => \E i \in 1..Len(events) :
                            events[i] = <<"play", keys_to_actions[keycode]>>

C1_Witness ==
  /\ pc = "play"
  /\ keycode = KEY_RIGHT
  /\ mode_before = Autonomous
  /\ mode = Participation
  /\ action = 1

\* C2, as stated: the toggle key takes Autonomous to Demonstration,
\* Demonstration to Autonomous and leaves Participation unchanged.
C2_ToggleLeavesParticipation ==
  (InTick /\ keycode = KEY_BACKSPACE)
    => mode = CASE mode_before = Autonomous -> Demonstration
                [] mode_before = Demonstration -> Autonomous
                [] mode_before = Participation -> Participation

\* C2, amended: the toggle key takes Autonomous to Demonstration,
\* Demonstration to Autonomous and Participation to Autonomous, and the
\* tick plays nothing.
C2_ToggleKey ==
  (InTick /\ keycode = KEY_BACKSPACE)
    => /\ mode = CASE mode_before = Autonomous -> Demonstration
                   [] mode_before = Demonstration -> Autonomous
                   [] mode_before = Participation -> Autonomous
       /\ pc # "play"
       /\ ~Played

C2_Witness ==
  /\ pc = "display"
  /\ keycode = KEY_BACKSPACE
  /\ mode_before = Participation
  /\ mode = Autonomous

\* C3: Mode is Autonomous at construction and a step changes it only when
\* it reads the toggle key, or reads a key of the KeyBinding Table while
\* Mode is Autonomous (which yields Participation); no step that reads a
\* console key, the no-input sentinel or an unbound key changes it, nor
\* does a bound key read in Demonstration or Participation, nor any step
\* of the Game calls, the redraw or the drain.
C3_ModeChangesOnlyByRule ==
  /\ mode = Autonomous
  /\ [][ mode' # mode =>
           /\ pc = "getch"
           /\ keycode' \notin {KEY_PPAGE, KEY_NPAGE, NO_INPUT}
           /\ \/ keycode' = KEY_BACKSPACE
              \/ /\ keycode' \in DOMAIN keys_to_actions
                 /\ mode = Autonomous
                 /\ mode' = Participation ]_vars

\* a bound key read in Demonstration has left Mode alone
C3_Witness ==
  /\ pc = "play"
  /\ keycode = KEY_LEFT
  /\ mode_before = Demonstration
  /\ mode = Demonstration

\* C4: the Return Accumulator is null as long as every reward returned by
\* its_showtime and play was null, and otherwise is the sum of the non-null
\* rewards returned so far; once it is non-null no step makes it null.
C4_ReturnIsSumOfRewards ==
  /\ [](total_return = IF reward_seen THEN Some(reward_sum) ELSE None)
  /\ [][ total_return # None => total_return' # None ]_vars

\* a play that returned a null reward has left a non-null total as it was
C4_Witness ==
  /\ pc = "display"
  /\ Played
  /\ reward = None
  /\ total_return = Some(2)
  /\ reward_sum = 2

\* the table binds Page Up or Page Down
BindsReservedKey ==
  KEY_PPAGE \in DOMAIN keys_to_actions \/ KEY_NPAGE \in DOMAIN keys_to_actions

\* nothing of the game has happened: no its_showtime, no display, no input
\* read, no play
NothingStarted ==
  /\ events = << >>
  /\ ~screen.drawn
  /\ keycode = 0
  /\ frame = 0
  /\ total_return = None

\* C5: when the table binds Page Up or Page Down, the run never gets past
\* the reserved-key check: the error is raised with no its_showtime, no
\* display, no input read and no play call made; and the error is raised
\* in no other situation, in particular on no tick of the loop.
C5_ReservedKeyRaisesAtStartup ==
  /\ BindsReservedKey => (pc \in {"check", "raised"} /\ NothingStarted)
  /\ pc = "raised" => (BindsReservedKey /\ NothingStarted)

C5_Witness ==
  /\ pc = "raised"
  /\ KEY_NPAGE \in DOMAIN keys_to_actions
  /\ events = << >>
\* C6, as stated: on every tick that reads the no-input sentinel while Mode
\* is Autonomous, decide() is called exactly once and Game.play is passed
\* exactly the action it returned.
C6_SentinelTickPlaysDecision ==
  (pc \in {"play", "display", "console", "crashed"}
     /\ keycode = NO_INPUT
     /\ mode_before = Autonomous)
    => /\ Cardinality(Decides) = 1
       /\ \A i \in Decides :
            /\ pc = "play" => action = events[i][2]
            /\ pc \in {"display", "console"} =>
                 (Len(events) > i /\ events[i + 1] = <<"play", events[i][2]>>)

\* C7: decide() is called at most once per tick, and only on a tick that
\* read the no-input sentinel with Mode Autonomous (and Mode is still
\* Autonomous then): never in Demonstration or Participation, never on a
\* tick that read a key.
C7_DecideOnlyOnAutonomousSentinel ==
  /\ Cardinality(Decides) <= 1
  /\ Decides # {} =>
       /\ keycode = NO_INPUT
       /\ mode_before = Autonomous
       /\ mode = Autonomous

C7_Witness ==
  /\ pc = "display"
  /\ keycode = NO_INPUT
  /\ Decides = {2}
  /\ Played

\* C8, as stated: the loop is left only when game_over is true (no input
\* event, mode or timeout ends it while game_over is false), it goes on to
\* the next input read while game_over is false, and Game.play is never
\* called once game_over is true.
C8_LoopEndsOnlyOnGameOver ==
  /\ pc \in {"exit", "crashed"} => game_over
  /\ pc \in {"getch", "play"} => ~game_over

\* the rightmost column of the chain walk
Rightmost == Len(GAME_ART[1]) - 1

\* its_showtime has been called
PostKickoff == pc \notin {"check", "kickoff", "raised"}

\* C9: in the chain walk, after every update the episode is terminated
\* exactly when the player is in column 0 (reward 1) or in the rightmost
\* column (reward 100), and in any other column the reward is null and the
\* episode goes on; a play of action 0 has moved the player one column
\* left, of action 1 one column right, of any other action not at all, and
\* the update of its_showtime has not moved it.
C9_ChainWalkUpdate ==
  (game_kind = "chain" /\ PostKickoff)
    => /\ game_over <=> position \in {0, Rightmost}
       /\ reward = IF position = 0 THEN Some(1)
                   ELSE IF position = Rightmost THEN Some(100)
                   ELSE None
       /\ (pc = "display" /\ Played) =>
            position = prev_position + (CASE action = 0 -> -1
                                          [] action = 1 -> 1
                                          [] OTHER -> 0)
       /\ (events # << >> /\ events[1][1] = "its_showtime") =>
            position = prev_position

C9_Witness ==
  /\ game_kind = "chain"
  /\ pc = "display"
  /\ Played
  /\ action = 1
  /\ position = Rightmost
  /\ prev_position = Rightmost - 1
  /\ reward = Some(100)
  /\ game_over

\* C10, as stated: the chain walk is 23 wide with the player starting in
\* column 1; after 21 plays of move-right from the start the player is in
\* the rightmost cell, the reward is 100 and game_over is true, and
\* game_over is not true before the 21st.
C10_TwentyOneRights ==
  (game_kind = "chain" /\ PostKickoff /\ right_run >= 0)
    => /\ Len(GAME_ART[1]) = 23
       /\ position = 1 + right_run
       /\ game_over <=> right_run = 21
       /\ right_run = 21 => (position = Rightmost /\ reward = Some(100))

\* C10, amended: the chain walk is 22 wide with the player starting in
\* column 2; after 19 plays of move-right from the start the player is in
\* the rightmost cell, the reward is 100 and game_over is true, and
\* game_over is not true (and the reward is null) before the 19th.
C10_NineteenRights ==
  (game_kind = "chain" /\ PostKickoff /\ right_run >= 0)
    => /\ Len(GAME_ART[1]) = 22
       /\ position = 2 + right_run
       /\ game_over <=> right_run = 19
       /\ right_run = 19 => (position = Rightmost /\ reward = Some(100))
       /\ right_run < 19 => reward = None

C10_Witness ==
  /\ game_kind = "chain"
  /\ pc = "display"
  /\ right_run = 19
  /\ position = Rightmost
  /\ reward = Some(100)
  /\ total_return = Some(100)
  /\ game_over
\* C11, as stated: in the chain walk, one play of move-left from the start
\* puts the player in the leftmost cell, with reward 1 and game_over true.
C11_OneLeft ==
  (game_kind = "chain" /\ PostKickoff /\ left_run = 1)
    => (position = 0 /\ reward = Some(1) /\ game_over)

\* C11, amended: in the chain walk the player starts in column 2; after one
\* play of move-left from the start it is in column 1 with a null reward
\* and the game going on, and after two it is in the leftmost cell, with
\* reward 1 and game_over true.
C11_TwoLefts ==
  (game_kind = "chain" /\ PostKickoff /\ left_run >= 0)
    => /\ position = 2 - left_run
       /\ game_over <=> left_run = 2
       /\ left_run = 2 => (position = 0 /\ reward = Some(1))
       /\ left_run < 2 => reward = None

C11_Witness ==
  /\ game_kind = "chain"
  /\ pc = "display"
  /\ left_run = 2
  /\ position = 0
  /\ reward = Some(1)
  /\ total_return = Some(1)
  /\ game_over

\* C12, as stated: whatever the configuration (the agent may be absent, the
\* delay set or not) and whatever is read, no step raises an error other
\* than the reserved-key error at startup.
C12_OnlyReservedKeyErrorRaised ==
  /\ pc # "crashed"
  /\ pc = "raised" => (keycode = 0 /\ events = << >>)
\* the names of the calls of this tick, in order
EventNames == [ i \in 1..Len(events) |-> events[i][1] ]

\* a tick has run from its input read to the loop test
TickDone == pc \in {"while", "exit"} /\ keycode # 0

\* C13: a tick that reads Page Up sets paint_console to TRUE and one that
\* reads Page Down sets it to FALSE, whatever it was; the tick goes from the
\* read straight to the redraw and the drain (no play, no decide), and none
\* of its steps changes Mode, the Return Accumulator or the Observation Set.
C13_ConsoleKeys ==
  /\ [][ /\ (pc = "getch" /\ pc' # "getch"
               /\ keycode' \in {KEY_PPAGE, KEY_NPAGE})
            => /\ paint_console' = (keycode' = KEY_PPAGE)
               /\ pc' = "display"
               /\ UNCHANGED << mode, total_return, observations >>
         /\ (pc \in {"display", "console"}
               /\ keycode \in {KEY_PPAGE, KEY_NPAGE})
            => UNCHANGED << mode, total_return, observations,
                            paint_console >> ]_vars
  /\ []( (TickDone /\ keycode \in {KEY_PPAGE, KEY_NPAGE})
           => /\ EventNames = << "getch", "display", "drain" >>
              /\ paint_console = (keycode = KEY_PPAGE)
              /\ mode = mode_before )

C13_Witness ==
  /\ TickDone
  /\ keycode = KEY_NPAGE
  /\ ~paint_console
  /\ mode = Participation
  /\ total_return # None
  /\ EventNames = << "getch", "display", "drain" >>

\* key k, read in mode m, is unbound and unreserved and does not go to the
\* Decision Source
NoOpKey(k, m) ==
  /\ k \notin DOMAIN keys_to_actions
  /\ k \notin {KEY_PPAGE, KEY_NPAGE, KEY_BACKSPACE}
  /\ ~(k = NO_INPUT /\ m = Autonomous)

\* C14: a tick that reads a key that is neither bound nor reserved (the
\* unbound no-input sentinel in Demonstration or Participation included)
\* goes from the read straight to the redraw and the drain (no play, no
\* decide), and none of its steps changes Mode, the Return Accumulator, the
\* Observation Set or paint_console.
C14_UnboundKeyIsNoOp ==
  /\ [][ /\ (pc = "getch" /\ pc' # "getch" /\ NoOpKey(keycode', mode))
            => /\ pc' = "display"
               /\ UNCHANGED << mode, total_return, observations,
                               paint_console >>
         /\ (pc \in {"display", "console"} /\ NoOpKey(keycode, mode_before))
            => UNCHANGED << mode, total_return, observations,
                            paint_console >> ]_vars
  /\ []( (TickDone /\ NoOpKey(keycode, mode_before))
           => /\ EventNames = << "getch", "display", "drain" >>
              /\ mode = mode_before )

C14_Witness ==
  /\ TickDone
  /\ keycode = NO_INPUT
  /\ NO_INPUT \notin DOMAIN keys_to_actions
  /\ mode = Demonstration
  /\ mode_before = Demonstration
  /\ EventNames = << "getch", "display", "drain" >>

\* C15, as stated: every loop iteration makes, in this order, exactly one
\* input read, at most one Game.play call, exactly one redraw and exactly
\* one drain; the redraw and the drain happen on every iteration, the one
\* whose play sets game_over included.
C15_IterationShape ==
  ((TickDone \/ pc = "crashed")
    => EventNames \in { << "getch", "display", "drain" >>,
                        << "getch", "play", "display", "drain" >>,
                        << "getch", "decide", "play", "display", "drain" >> })
\* the first frame is on the screen and no input has been read yet
FirstFrame == PostKickoff /\ keycode = 0

\* its_showtime is called exactly once, before any input read and any play,
\* and what it returned is displayed once, with elapsed time zero, before
\* the first input read
KickoffOnce ==
  /\ showtime_calls <= 1
  /\ showtime_calls = 0 <=> pc \in {"check", "kickoff", "raised"}
  /\ showtime_calls = 0 => (keycode = 0 /\ events = << >> /\ ~screen.drawn)
  /\ FirstFrame => /\ EventNames = << "its_showtime", "display" >>
                   /\ screen.drawn
                   /\ screen.elapsed = "zero"
  /\ keycode # 0 => \A i \in 1..Len(events) : events[i][1] # "its_showtime"

\* C16, as stated: its_showtime is called exactly once, before any input
\* read and any play; its observation is displayed once before the first
\* input read, with elapsed time zero and a score of zero.
C16_FirstScoreIsZero ==
  /\ KickoffOnce
  /\ FirstFrame => (screen.score = Some(0) /\ total_return = Some(0))

\* C16, amended: its_showtime is called exactly once, before any input read
\* and any play; its observation is displayed once before the first input
\* read, with elapsed time zero and with the score being the reward that
\* its_showtime returned: null when it returned none (as the chain walk
\* does), not zero.
C16_FirstScoreIsKickoffReward ==
  /\ KickoffOnce
  /\ FirstFrame => /\ screen.score = reward
                   /\ total_return = reward
                   /\ reward_seen <=> screen.score # None
                   /\ game_kind = "chain" => screen.score = None

C16_Witness ==
  /\ game_kind = "chain"
  /\ pc = "getch"
  /\ keycode = 0
  /\ showtime_calls = 1
  /\ screen.score = None
  /\ screen.elapsed = "zero"

\* C17: after every crop-and-repaint the Observation Set has one view per
\* configured cropper (at least one), in cropper order, each showing its
\* cropper's window of the latest observation; with a repainter and more
\* than one view every view is a copy with a buffer of its own (also when
\* the repainter hands out the same buffer on every call), and with a
\* repainter and exactly one view the view is the repainter's own buffer.
C17_ObservationSet ==
  PostKickoff
    => /\ n_croppers >= 1
       /\ Len(observations) = n_croppers
       /\ \A i \in 1..Len(observations) :
            observations[i].board = << i, << position, frame >> >>
       /\ (repainter # "None" /\ Len(observations) > 1) =>
            /\ \A i \in 1..Len(observations) :
                 observations[i].buf.kind = "copy"
            /\ \A i, j \in 1..Len(observations) :
                 i # j => observations[i].buf # observations[j].buf
       /\ (repainter # "None" /\ Len(observations) = 1) =>
            observations[1].buf.kind = "paint"

C17_Witness ==
  /\ pc = "display"
  /\ Played
  /\ repainter = "reuse"
  /\ Len(observations) = 2
  /\ observations[1].buf # observations[2].buf
  /\ observations[1].board # observations[2].board
\* C18, as stated: with the no-input sentinel bound to an action, a
\* sentinel tick in Autonomous still goes to the Decision Source: decide()
\* is called, the action played is the decided one and not the bound one,
\* and Mode stays Autonomous; a sentinel tick in Demonstration or
\* Participation calls no decide() and plays the sentinel's bound action.
C18_BoundSentinel ==
  NO_INPUT \in DOMAIN keys_to_actions
    => /\ (pc \in {"play", "display", "console", "crashed"}
             /\ keycode = NO_INPUT /\ mode_before = Autonomous)
          => /\ Cardinality(Decides) = 1
             /\ mode = Autonomous
             /\ \A i \in Decides :
                  /\ action = events[i][2]
                  /\ pc \in {"display", "console"} =>
                       (Len(events) > i
                          /\ events[i + 1] = <<"play", events[i][2]>>)
       /\ (InTick /\ keycode = NO_INPUT /\ mode_before # Autonomous)
          => /\ Decides = {}
             /\ mode = mode_before
             /\ action = keys_to_actions[NO_INPUT]
             /\ pc # "play" =>
                  \E i \in 1..Len(events) :
                    events[i] = <<"play", keys_to_actions[NO_INPUT]>>

\* C19: a table that binds the toggle key 127 passes the reserved-key
\* check, and every tick that reads 127, bound or not, toggles Mode and
\* goes straight to the redraw and the drain: no play (so the action bound
\* to 127 never reaches the Game) and no decide.
C19_ToggleKeyNeverPlayed ==
  /\ (KEY_BACKSPACE \in DOMAIN keys_to_actions /\ ~BindsReservedKey)
       => pc # "raised"
  /\ ((InTick \/ TickDone) /\ keycode = KEY_BACKSPACE)
       => /\ pc # "play"
          /\ ~Played
          /\ Decides = {}
          /\ mode = IF mode_before = Autonomous THEN Demonstration
                    ELSE Autonomous
          /\ TickDone => EventNames = << "getch", "display", "drain" >>

C19_Witness ==
  /\ KEY_BACKSPACE \in DOMAIN keys_to_actions
  /\ TickDone
  /\ keycode = KEY_BACKSPACE
  /\ mode_before = Participation
  /\ mode = Autonomous
  /\ EventNames = << "getch", "display", "drain" >>
\* the user presses no key any more
Idle == user = "gone"

\* the loop is running in Demonstration with nobody at the keyboard
Stuck ==
  /\ Idle
  /\ mode = Demonstration
  /\ ~game_over
  /\ pc \in {"while", "getch", "display", "console"}

\* C20: in the play_as_robot configuration, once no key is pressed any more
\* (in particular when none ever is) and Mode is Autonomous, Mode stays
\* Autonomous, every tick plays the agent's action 1 and moves the player
\* one column right, and the loop terminates with a Return Accumulator of
\* 100; when the plays so far were all move-right (none at all included),
\* game_over becomes true exactly with the 19th, the distance from the
\* start column 2 to the rightmost column 21.  By contrast, once Mode is
\* Demonstration and no key is pressed any more, the loop goes on reading
\* input for ever: Game.play is never called and the loop never exits.
C20_RobotWalksToTheEnd ==
  /\ [][ /\ (Idle /\ mode = Autonomous) => mode' = Autonomous
         /\ (Idle /\ mode = Autonomous /\ pc = "getch")
            => (pc' = "play" /\ keycode' = NO_INPUT /\ action' = 1)
         /\ (Idle /\ mode = Autonomous /\ pc = "play")
            => position' = position + 1
         /\ Stuck => Stuck' ]_vars
  /\ []( (Idle /\ mode = Autonomous /\ right_run >= 0)
           => /\ position = 2 + right_run
              /\ game_over <=> right_run = 19
              /\ pc = "exit" => total_return = Some(100) )
  /\ (Idle /\ mode = Autonomous)
       ~> (pc = "exit" /\ mode = Autonomous /\ position = Rightmost
             /\ total_return = Some(100))
  /\ [](Stuck => [](pc # "exit" /\ pc # "play"))
  /\ Stuck ~> (Stuck /\ pc = "getch")

C20_Witness ==
  /\ pc = "exit"
  /\ Idle
  /\ keycode = NO_INPUT
  /\ mode = Autonomous
  /\ right_run = 19
  /\ position = Rightmost
  /\ total_return = Some(100)
====
